---- MODULE Spec2Model ----
(***************************************************************************)
(* A model of faq_agentcore_app_with_logging.py: the FAQ loader            *)
(* (load_faq_csv), the module-level index build, the three retrieval tools *)
(* (search_faq, search_detailed_faq, reformulate_query) and the AgentCore  *)
(* entrypoint (agent_invocation).                                          *)
(*                                                                         *)
(* Text that the program takes apart or puts together (CSV fields,         *)
(* Documents, queries, tool outputs) is a sequence of one-character        *)
(* strings, so that strip(), f-strings and join() are computed character   *)
(* by character.  Text that the program only passes along (the prompt, the *)
(* agent's messages) is a plain string.                                    *)
(*                                                                         *)
(* The embedding model, the text splitter, the FAISS index, the chat model *)
(* and the agent loop are libraries: what they return is chosen by the     *)
(* environment, within what their interface allows.                        *)
(***************************************************************************)
EXTENDS Integers, Sequences, FiniteSets, TLC

VARIABLES
    pc,            \* position of the module-level code: the next statement to run
    table,         \* the data rows csv.DictReader yields for the FAQ file
    docs,          \* module global docs (line 52)
    chunks,        \* module global chunks (line 61)
    store,         \* module global store (line 65): the indexed chunk texts
    steps,         \* the module-level build statements that have completed, in order
    startupError,  \* the exception that ended the module-level code, or NoError
    inv,           \* per host worker: the agent_invocation call it is running
    lastCall       \* the latest tool call: arguments, index query, results, output

vars == <<pc, table, docs, chunks, store, steps, startupError, inv, lastCall>>

----------------------------------------------------------------------------
(* Bounds of the model *)

\* Rows of an enumerated CSV table (specification SpecLoader).
MaxRows == 2

\* Rows of the FAQ files the whole program is started on (specifications Spec
\* and SpecEntry).
MaxFaqRows == 1

\* Rows of the FAQ file behind the index the tools are run on (SpecTools).
MaxIndexed == 3

\* Host workers that may run agent_invocation concurrently.
NumWorkers == 2

----------------------------------------------------------------------------
(* Program constants *)

\* k of search_faq and reformulate_query (lines 81 and 138).
TOP_K == 3

\* Default of search_detailed_faq's num_results (line 97).
DEFAULT_NUM_RESULTS == 5

\* RecursiveCharacterTextSplitter(chunk_size=500, ...) (line 60).
CHUNK_SIZE == 500

\* payload.get("prompt", "No prompt found in input") (line 191).
DEFAULT_PROMPT == "No prompt found in input"

----------------------------------------------------------------------------
(* Text *)

\* The characters str.strip() removes, among those the model uses.
Whitespace == {" ", "\t", "\n"}

\* What csv.DictReader gives for a field the row does not have (restval=None).
NoneValue == <<"None">>

RECURSIVE lstrip(_)
lstrip(s) ==
    IF s # <<>> /\ Head(s) \in Whitespace THEN lstrip(Tail(s)) ELSE s

RECURSIVE rstrip(_)
rstrip(s) ==
    IF s # <<>> /\ s[Len(s)] \in Whitespace
    THEN rstrip(SubSeq(s, 1, Len(s) - 1))
    ELSE s

\* str.strip()
strip(s) == rstrip(lstrip(s))

Digit(d) ==
    CASE d = 0 -> "0" [] d = 1 -> "1" [] d = 2 -> "2" [] d = 3 -> "3"
      [] d = 4 -> "4" [] d = 5 -> "5" [] d = 6 -> "6" [] d = 7 -> "7"
      [] d = 8 -> "8" [] d = 9 -> "9"

\* str(n) of a natural number, as an f-string renders it.
RECURSIVE Str(_)
Str(n) == IF n < 10 THEN <<Digit(n)>> ELSE Str(n \div 10) \o <<Digit(n % 10)>>

\* sep.join(parts)
RECURSIVE Join(_, _)
Join(sep, parts) ==
    IF parts = <<>> THEN <<>>
    ELSE IF Len(parts) = 1 THEN parts[1]
    ELSE parts[1] \o sep \o Join(sep, Tail(parts))

----------------------------------------------------------------------------
(* load_faq_csv *)

NoError == "none"

\* row["Answer"].strip() on a field the row does not have: None has no strip().
MissingFieldError == "MissingFieldError"

\* Mutant: the answer loses its leading whitespace only (lstrip for strip).
RowDocumentLstripOnly(row) ==
    <<"Q", ":", " ">> \o strip(row.Question)
        \o <<"\n", "A", ":", " ">> \o lstrip(row.Answer)

\* Document(page_content=f"Q: {q}\nA: {a}") of one row (lines 46-48).
RowDocument(row) ==
    <<"Q", ":", " ">> \o strip(row.Question)
        \o <<"\n", "A", ":", " ">> \o strip(row.Answer)

\* The for loop of lines 45-48 from row i on, docs being the list so far.
RECURSIVE LoadRows(_, _, _)
LoadRows(rows, i, acc) ==
    IF i > Len(rows) THEN [ok |-> TRUE, docs |-> acc, error |-> NoError]
    ELSE IF rows[i].Question = NoneValue \/ rows[i].Answer = NoneValue
         THEN [ok |-> FALSE, docs |-> <<>>, error |-> MissingFieldError]
         ELSE LoadRows(rows, i + 1, Append(acc, RowDocument(rows[i])))

\* Mutant: a row without an Answer is skipped and loading goes on.
load_faq_csv_skipping(rows) ==
    LET RECURSIVE Skip(_, _)
        Skip(i, acc) ==
            IF i > Len(rows) THEN [ok |-> TRUE, docs |-> acc, error |-> NoError]
            ELSE IF rows[i].Answer = NoneValue THEN Skip(i + 1, acc)
            ELSE Skip(i + 1, Append(acc, RowDocument(rows[i])))
    IN Skip(1, <<>>)

\* load_faq_csv(path): the Documents returned, or the exception raised.
load_faq_csv(rows) == LoadRows(rows, 1, <<>>)

----------------------------------------------------------------------------
(* Inputs *)

QuestionTexts ==
    { <<" ", "a">>, <<"b", "\t">>, <<"a", " ", "b">> }

AnswerTexts ==
    { <<"x", " ">>, <<" ">>, <<"\n", "y", " ", "z", "\n">> }

\* A row of the file: a short row has no Answer.
Rows == [Question : QuestionTexts, Answer : AnswerTexts \cup {NoneValue}]

Tables == UNION { [1..n -> Rows] : n \in 0..MaxRows }

\* Row i of the FAQ files the program is started on.
FaqRow(i) ==
    [Question |-> <<" ", "q">> \o Str(i), Answer |-> <<"a">> \o Str(i) \o <<"\n">>]

FaqFile(n) == [i \in 1..n |-> FaqRow(i)]

\* The same file with its last row cut short.
BadFaqFile(n) ==
    [i \in 1..n |-> IF i = n THEN [FaqRow(i) EXCEPT !.Answer = NoneValue]
                    ELSE FaqRow(i)]

FaqFiles ==
    { FaqFile(n) : n \in 0..MaxFaqRows } \cup { BadFaqFile(n) : n \in 1..MaxFaqRows }

Workers == 1..NumWorkers

----------------------------------------------------------------------------
(* Module-level code: the index build and what follows it *)

IdleInvocation ==
    [pc |-> "idle", payload |-> <<>>, agentInput |-> <<>>, agentCalls |-> 0,
     agentOutput |-> <<>>, raised |-> NoError, response |-> <<>>,
     error |-> NoError]

NoCall ==
    [tool |-> "none", args |-> <<>>, query |-> <<>>, k |-> 0,
     results |-> <<>>, output |-> <<>>]

InitWith(files) ==
    /\ pc = "load"
    /\ table \in files
    /\ docs = <<>>
    /\ chunks = <<>>
    /\ store = <<>>
    /\ steps = <<>>
    /\ startupError = NoError
    /\ inv = [w \in Workers |-> IdleInvocation]
    /\ lastCall = NoCall

Init == InitWith(FaqFiles)

\* An exception at module level ends the import: nothing after it runs.
Abort(error) ==
    /\ pc' = "aborted"
    /\ startupError' = error

\* docs = load_faq_csv("./data/nuts_shop_faq_real.csv") (line 52)
LoadCsv ==
    /\ pc = "load"
    /\ LET r == load_faq_csv(table)
       IN IF r.ok
          THEN /\ docs' = r.docs
               /\ pc' = "embed"
               /\ steps' = Append(steps, "load")
               /\ UNCHANGED startupError
          ELSE /\ Abort(r.error)
               /\ UNCHANGED <<docs, steps>>
    /\ UNCHANGED <<table, chunks, store, inv, lastCall>>

\* emb = HuggingFaceEmbeddings(...) (lines 55-57): returns or raises.
CreateEmbeddings ==
    /\ pc = "embed"
    /\ \/ pc' = "split" /\ steps' = Append(steps, "embed") /\ UNCHANGED startupError
       \/ Abort("IndexBuildError") /\ UNCHANGED steps
    /\ UNCHANGED <<table, docs, chunks, store, inv, lastCall>>

\* splitter.split_documents(docs) (lines 60-61) for Documents no longer than
\* chunk_size: one chunk per Document, its text stripped, an empty one dropped.
split_documents(ds) ==
    LET RECURSIVE Split(_)
        Split(i) ==
            IF i > Len(ds) THEN <<>>
            ELSE IF strip(ds[i]) = <<>> THEN Split(i + 1)
            ELSE <<strip(ds[i])>> \o Split(i + 1)
    IN Split(1)

SplitDocuments ==
    /\ pc = "split"
    /\ \A i \in 1..Len(docs) : Len(docs[i]) <= CHUNK_SIZE
    /\ chunks' = split_documents(docs)
    /\ pc' = "build"
    /\ steps' = Append(steps, "split")
    /\ UNCHANGED <<table, docs, store, startupError, inv, lastCall>>

\* Mutant: a failed index build is swallowed and startup goes on without it.
BuildStoreDegraded ==
    /\ pc = "build"
    /\ \/ /\ store' = chunks
          /\ steps' = Append(steps, "build")
       \/ UNCHANGED <<store, steps>>
    /\ pc' = "model"
    /\ UNCHANGED <<table, docs, chunks, startupError, inv, lastCall>>

\* store = FAISS.from_documents(chunks, emb) (line 65): returns or raises.
BuildStore ==
    /\ pc = "build"
    /\ \/ /\ store' = chunks
          /\ pc' = "model"
          /\ steps' = Append(steps, "build")
          /\ UNCHANGED startupError
       \/ Abort("IndexBuildError") /\ UNCHANGED <<store, steps>>
    /\ UNCHANGED <<table, docs, chunks, inv, lastCall>>

\* model = ChatGroq(...) and agent = create_agent(...) (lines 156-181).
CreateAgent ==
    /\ pc = "model"
    /\ \/ pc' = "main" /\ steps' = Append(steps, "agent") /\ UNCHANGED startupError
       \/ Abort("MissingCredentialError") /\ UNCHANGED steps
    /\ UNCHANGED <<table, docs, chunks, store, inv, lastCall>>

\* @app.entrypoint has registered agent_invocation (line 184); app.run()
\* starts serving (lines 204-206).
RunApp ==
    /\ pc = "main"
    /\ pc' = "serving"
    /\ UNCHANGED <<table, docs, chunks, store, steps, startupError, inv, lastCall>>

Startup ==
    \/ LoadCsv
    \/ CreateEmbeddings
    \/ SplitDocuments
    \/ BuildStore
    \/ CreateAgent
    \/ RunApp

----------------------------------------------------------------------------
(* The retrieval tools *)

Min(a, b) == IF a < b THEN a ELSE b

\* The rankings of at most k distinct entries out of n.
Rankings(n, k) ==
    UNION { { f \in [1..l -> 1..n] : \A i, j \in 1..l : i # j => f[i] # f[j] }
            : l \in 0..Min(k, n) }

\* store.similarity_search(query, k): the texts of at most k entries of the
\* index, in the rank order the index gives them for the query.
similarity_search(k) ==
    { [i \in 1..Len(f) |-> store[f[i]]] : f \in Rankings(Len(store), k) }

\* "\n\n---\n\n".join([f"{label}{i+1}:\n{doc.page_content}"
\*                     for i, doc in enumerate(results)])
Context(label, results) ==
    Join(<<"\n", "\n", "-", "-", "-", "\n", "\n">>,
         [i \in 1..Len(results) |-> label \o Str(i) \o <<":", "\n">> \o results[i]])

\* Mutant: the entries are numbered from 0 (i for i+1).
search_faq_output_from_zero(results) ==
    IF results = <<>>
    THEN <<"N", "o", " ", "r", "e", "l", "e", "v", "a", "n", "t", " ", "F", "A",
           "Q", " ", "e", "n", "t", "r", "i", "e", "s", " ", "f", "o", "u", "n",
           "d", ".">>
    ELSE <<"F", "o", "u", "n", "d", " ">> \o Str(Len(results))
            \o <<" ", "r", "e", "l", "e", "v", "a", "n", "t", " ", "F", "A", "Q",
                 " ", "e", "n", "t", "r", "i", "e", "s", ":", "\n", "\n">>
            \o Join(<<"\n", "\n", "-", "-", "-", "\n", "\n">>,
                    [i \in 1..Len(results) |->
                        <<"F", "A", "Q", " ", "E", "n", "t", "r", "y", " ">>
                            \o Str(i - 1) \o <<":", "\n">> \o results[i]])

\* What search_faq returns for the results of its query (lines 83-93).
search_faq_output(results) ==
    IF results = <<>>
    THEN <<"N", "o", " ", "r", "e", "l", "e", "v", "a", "n", "t", " ", "F", "A",
           "Q", " ", "e", "n", "t", "r", "i", "e", "s", " ", "f", "o", "u", "n",
           "d", ".">>
    ELSE <<"F", "o", "u", "n", "d", " ">> \o Str(Len(results))
            \o <<" ", "r", "e", "l", "e", "v", "a", "n", "t", " ", "F", "A", "Q",
                 " ", "e", "n", "t", "r", "i", "e", "s", ":", "\n", "\n">>
            \o Context(<<"F", "A", "Q", " ", "E", "n", "t", "r", "y", " ">>, results)

\* What search_detailed_faq returns for the results of its query (lines 111-121).
search_detailed_faq_output(results) ==
    IF results = <<>>
    THEN <<"N", "o", " ", "r", "e", "l", "e", "v", "a", "n", "t", " ", "F", "A",
           "Q", " ", "e", "n", "t", "r", "i", "e", "s", " ", "f", "o", "u", "n",
           "d", ".">>
    ELSE <<"F", "o", "u", "n", "d", " ">> \o Str(Len(results))
            \o <<" ", "d", "e", "t", "a", "i", "l", "e", "d", " ", "F", "A", "Q",
                 " ", "e", "n", "t", "r", "i", "e", "s", ":", "\n", "\n">>
            \o Context(<<"F", "A", "Q", " ", "E", "n", "t", "r", "y", " ">>, results)

\* Mutant: the index is queried with the original query.
ReformulatedRaw(original_query, focus_aspect) == original_query

\* reformulated = f"{focus_aspect} related to {original_query}" (line 137)
Reformulated(original_query, focus_aspect) ==
    focus_aspect
        \o <<" ", "r", "e", "l", "a", "t", "e", "d", " ", "t", "o", " ">>
        \o original_query

\* What reformulate_query returns for the results of its query (lines 140-150).
reformulate_query_output(focus_aspect, results) ==
    IF results = <<>>
    THEN <<"N", "o", " ", "r", "e", "s", "u", "l", "t", "s", " ", "f", "o", "u",
           "n", "d", " ", "f", "o", "r", " ", "a", "s", "p", "e", "c", "t", ":",
           " ">> \o focus_aspect
    ELSE <<"R", "e", "s", "u", "l", "t", "s", " ", "f", "o", "r", " ", "'">>
            \o focus_aspect
            \o <<"'", " ", "a", "s", "p", "e", "c", "t", ":", "\n", "\n">>
            \o Context(<<"E", "n", "t", "r", "y", " ">>, results)

\* Mutant: the caller's num_results is ignored.
NumResultsDefaultOnly(args) == DEFAULT_NUM_RESULTS

\* The num_results search_detailed_faq runs with: the caller's, or the default.
NumResults(args) ==
    IF "num_results" \in DOMAIN args THEN args.num_results ELSE DEFAULT_NUM_RESULTS

\* Arguments the agent loop calls the tools with.
Queries == { <<"n", "u", "t", "s">>, <<"f", "e", "e", "?">> }

Aspects == { <<"c", "o", "s", "t">>, <<"s", "h", "i", "p">> }

NumResultsArgs == {1, 2}

SearchArgs == [query : Queries]

DetailedArgs == [query : Queries] \cup [query : Queries, num_results : NumResultsArgs]

ReformulateArgs == [original_query : Queries, focus_aspect : Aspects]

\* A tool runs when the agent loop of some invocation calls it.
ToolCallable ==
    /\ pc = "serving"
    /\ \E w \in Workers : inv[w].pc = "agent"

\* Mutant: the tool adds the query text to the index (store.add_texts).
search_faq_indexing(args) ==
    /\ ToolCallable
    /\ Len(store) <= MaxIndexed
    /\ store' = Append(store, args.query)
    /\ \E results \in similarity_search(TOP_K) :
          lastCall' = [tool |-> "search_faq", args |-> args, query |-> args.query,
                       k |-> TOP_K, results |-> results,
                       output |-> search_faq_output(results)]
    /\ UNCHANGED <<pc, table, docs, chunks, steps, startupError, inv>>

\* search_faq(query) (lines 69-93)
search_faq(args) ==
    /\ ToolCallable
    /\ \E results \in similarity_search(TOP_K) :
          lastCall' = [tool |-> "search_faq", args |-> args, query |-> args.query,
                       k |-> TOP_K, results |-> results,
                       output |-> search_faq_output(results)]
    /\ UNCHANGED <<pc, table, docs, chunks, store, steps, startupError, inv>>

\* search_detailed_faq(query, num_results=5) (lines 96-121)
search_detailed_faq(args) ==
    /\ ToolCallable
    /\ \E results \in similarity_search(NumResults(args)) :
          lastCall' = [tool |-> "search_detailed_faq", args |-> args,
                       query |-> args.query, k |-> NumResults(args),
                       results |-> results,
                       output |-> search_detailed_faq_output(results)]
    /\ UNCHANGED <<pc, table, docs, chunks, store, steps, startupError, inv>>

\* reformulate_query(original_query, focus_aspect) (lines 124-150)
reformulate_query(args) ==
    /\ ToolCallable
    /\ LET reformulated == Reformulated(args.original_query, args.focus_aspect)
       IN \E results \in similarity_search(TOP_K) :
             lastCall' = [tool |-> "reformulate_query", args |-> args,
                          query |-> reformulated, k |-> TOP_K, results |-> results,
                          output |-> reformulate_query_output(args.focus_aspect, results)]
    /\ UNCHANGED <<pc, table, docs, chunks, store, steps, startupError, inv>>

Tools ==
    \/ \E args \in SearchArgs : search_faq(args)
    \/ \E args \in DetailedArgs : search_detailed_faq(args)
    \/ \E args \in ReformulateArgs : reformulate_query(args)

----------------------------------------------------------------------------
(* The entrypoint *)

\* Request payloads: mappings with or without the key prompt.
EmptyPayload == [key \in {} |-> ""]

Payloads ==
    { EmptyPayload,
      [prompt |-> "Where are you located?", session |-> "s1"] }

\* What agent.invoke may raise.
AgentErrors == { "AgentInvocationError" }

\* The messages the agent loop appends to the ones it was given.
AgentTails ==
    { << [role |-> "ai", content |-> "We are in Colombo."] >>,
      << [role |-> "ai", content |-> ""],
         [role |-> "tool", content |-> "No relevant FAQ entries found."],
         [role |-> "ai", content |-> "I could not find that."] >> }

\* Mutant: a payload without prompt gives the empty text.
PromptOfNoDefault(payload) ==
    IF "prompt" \in DOMAIN payload THEN payload.prompt ELSE ""

\* payload.get("prompt", "No prompt found in input") (line 191)
PromptOf(payload) ==
    IF "prompt" \in DOMAIN payload THEN payload.prompt ELSE DEFAULT_PROMPT

\* {"messages": [("human", query)]} (line 195)
AgentInput(query) == << [role |-> "human", content |-> query] >>

\* Mutant: the first message is returned (messages[0] for messages[-1]).
ResponseFirst(messages) == [result |-> messages[1].content]

\* {"result": result['messages'][-1].content} (line 201)
Response(messages) == [result |-> messages[Len(messages)].content]

\* agent_invocation(payload, context) up to the call of agent.invoke
\* (lines 185-195); the worker then waits for the agent loop.
Invoke(w, payload) ==
    /\ pc = "serving"
    /\ inv[w].pc # "agent"
    /\ inv' = [inv EXCEPT ![w] =
                  [pc |-> "agent", payload |-> payload,
                   agentInput |-> AgentInput(PromptOf(payload)),
                   agentCalls |-> 1, agentOutput |-> <<>>, raised |-> NoError,
                   response |-> <<>>, error |-> NoError]]
    /\ UNCHANGED <<pc, table, docs, chunks, store, steps, startupError, lastCall>>

\* agent.invoke returns; agent_invocation returns its mapping (lines 195-201).
AgentReturn(w, tail) ==
    /\ inv[w].pc = "agent"
    /\ LET messages == inv[w].agentInput \o tail
       IN inv' = [inv EXCEPT ![w].pc = "done",
                             ![w].agentOutput = messages,
                             ![w].response = Response(messages)]
    /\ UNCHANGED <<pc, table, docs, chunks, store, steps, startupError, lastCall>>

\* Mutant: the error is caught and an apology is returned as the result.
AgentRaiseFallback(w, error) ==
    /\ inv[w].pc = "agent"
    /\ inv' = [inv EXCEPT ![w].pc = "done",
                          ![w].raised = error,
                          ![w].response = [result |-> "Sorry, something went wrong."]]
    /\ UNCHANGED <<pc, table, docs, chunks, store, steps, startupError, lastCall>>

\* agent.invoke raises; nothing in agent_invocation catches it.
AgentRaise(w, error) ==
    /\ inv[w].pc = "agent"
    /\ inv' = [inv EXCEPT ![w].pc = "failed",
                          ![w].raised = error,
                          ![w].error = error]
    /\ UNCHANGED <<pc, table, docs, chunks, store, steps, startupError, lastCall>>

Entrypoint ==
    \/ \E w \in Workers, payload \in Payloads : Invoke(w, payload)
    \/ \E w \in Workers, tail \in AgentTails : AgentReturn(w, tail)
    \/ \E w \in Workers, error \in AgentErrors : AgentRaise(w, error)

----------------------------------------------------------------------------
(* Specifications *)

NextLoader == LoadCsv

\* load_faq_csv on every table of at most MaxRows rows.
SpecLoader == InitWith(Tables) /\ [][NextLoader]_vars

\* The state the program is in once it has started on FaqFile(n) and worker 1
\* has received a request: its agent loop may call the tools.
InitTools ==
    \E n \in 0..MaxIndexed :
        /\ pc = "serving"
        /\ table = FaqFile(n)
        /\ docs = load_faq_csv(table).docs
        /\ chunks = split_documents(docs)
        /\ store = chunks
        /\ steps = <<"load", "embed", "split", "build", "agent">>
        /\ startupError = NoError
        /\ inv = [w \in Workers |->
                    IF w = 1
                    THEN [pc |-> "agent", payload |-> EmptyPayload,
                          agentInput |-> AgentInput(PromptOf(EmptyPayload)),
                          agentCalls |-> 1, agentOutput |-> <<>>,
                          raised |-> NoError, response |-> <<>>,
                          error |-> NoError]
                    ELSE IdleInvocation]
        /\ lastCall = NoCall

NextTools == Tools

\* The three tools, called in any order on an index of at most MaxIndexed chunks.
SpecTools == InitTools /\ [][NextTools]_vars

NextEntry == Startup \/ Entrypoint

\* Startup and the entrypoint, the agent loop calling no tool.
SpecEntry == Init /\ [][NextEntry]_vars

Next == Startup \/ Tools \/ Entrypoint

\* The whole program, started on one of the FAQ files.
Spec == Init /\ [][Next]_vars

----------------------------------------------------------------------------
(* Vocabulary of the properties *)

\* t is s without its leading and trailing whitespace: a slice of s with only
\* whitespace before and after it, which neither starts nor ends with whitespace.
IsTrimOf(t, s) ==
    \E i \in 1..(Len(s) + 1), j \in 0..Len(s) :
        /\ i <= j + 1
        /\ t = SubSeq(s, i, j)
        /\ \A k \in 1..(i - 1) : s[k] \in Whitespace
        /\ \A k \in (j + 1)..Len(s) : s[k] \in Whitespace
        /\ i <= j => s[i] \notin Whitespace /\ s[j] \notin Whitespace

Slices(s) == { SubSeq(s, i, j) : i \in 1..(Len(s) + 1), j \in 0..Len(s) }

Trimmed(s) == CHOOSE t \in Slices(s) : IsTrimOf(t, s)

WellFormed(rows) == \A i \in 1..Len(rows) : rows[i].Answer # NoneValue

Numerals == <<"1", "2", "3", "4", "5", "6", "7", "8", "9">>

Separator == <<"\n", "\n", "-", "-", "-", "\n", "\n">>

\* The entries of a listing from the i-th on: label, number, colon, newline,
\* content, with the separator between two entries.
RECURSIVE Listing(_, _, _)
Listing(label, results, i) ==
    IF i > Len(results) THEN <<>>
    ELSE (IF i > 1 THEN Separator ELSE <<>>)
            \o label \o <<Numerals[i], ":", "\n">> \o results[i]
            \o Listing(label, results, i + 1)

HasPrefix(s, p) == Len(p) <= Len(s) /\ SubSeq(s, 1, Len(p)) = p

Occurrences(sub, s) ==
    Cardinality({ i \in 1..(Len(s) - Len(sub) + 1) :
                    SubSeq(s, i, i + Len(sub) - 1) = sub })

NoRelevantEntries ==
    <<"N", "o", " ", "r", "e", "l", "e", "v", "a", "n", "t", " ", "F", "A", "Q",
      " ", "e", "n", "t", "r", "i", "e", "s", " ", "f", "o", "u", "n", "d", ".">>

FaqEntryLabel == <<"F", "A", "Q", " ", "E", "n", "t", "r", "y", " ">>

Active(w) == inv[w].pc # "idle"

BuildSteps == <<"load", "embed", "split", "build", "agent">>

----------------------------------------------------------------------------
(* Properties *)

\* C1: for a well-formed table of N rows (N >= 0) load_faq_csv returns N
\* Documents in row order, the i-th being "Q: " + the i-th Question trimmed
\* + "\nA: " + the i-th Answer trimmed.
C1_OneDocumentPerRow ==
    (pc # "load" /\ WellFormed(table)) =>
        /\ pc = "embed"
        /\ Len(docs) = Len(table)
        /\ \A i \in 1..Len(table) :
              docs[i] = <<"Q", ":", " ">> \o Trimmed(table[i].Question)
                          \o <<"\n", "A", ":", " ">> \o Trimmed(table[i].Answer)

\* Two rows loaded into two different Documents, whitespace having been removed.
C1_Witness ==
    /\ pc = "embed"
    /\ Len(table) = 2
    /\ Len(docs) = 2
    /\ docs[1] # docs[2]
    /\ Len(docs[2]) < 7 + Len(table[2].Question) + Len(table[2].Answer)
    /\ table[2].Answer # Trimmed(table[2].Answer)

\* C2: if any row lacks its Answer, load_faq_csv fails with the missing-field
\* error and the caller gets no Documents, wherever the row stands.
C2_MissingAnswerFails ==
    (pc # "load" /\ ~WellFormed(table)) =>
        /\ pc = "aborted"
        /\ startupError = "MissingFieldError"
        /\ docs = <<>>

\* The short row comes after a good one, which was already turned into a Document.
C2_Witness ==
    /\ pc = "aborted"
    /\ Len(table) = 2
    /\ table[1].Answer # NoneValue
    /\ table[2].Answer = NoneValue

\* C3: search_faq asks the index for the top 3 with its query; for no result
\* it returns "No relevant FAQ entries found.", and for n results (1 <= n <= 3)
\* "Found {n} relevant FAQ entries:\n\n" and the entries "FAQ Entry {i}:\n
\* {content}", i = 1..n in rank order, joined by "\n\n---\n\n".
C3_SearchFaq ==
    lastCall.tool = "search_faq" =>
        /\ lastCall.k = 3
        /\ lastCall.query = lastCall.args.query
        /\ Len(lastCall.results) <= 3
        /\ lastCall.results = <<>> => lastCall.output = NoRelevantEntries
        /\ lastCall.results # <<>> =>
              lastCall.output =
                  <<"F", "o", "u", "n", "d", " ", Numerals[Len(lastCall.results)]>>
                    \o <<" ", "r", "e", "l", "e", "v", "a", "n", "t", " ", "F", "A",
                         "Q", " ", "e", "n", "t", "r", "i", "e", "s", ":", "\n", "\n">>
                    \o Listing(FaqEntryLabel, lastCall.results, 1)

\* Three results, ranked otherwise than they are stored.
C3_Witness ==
    /\ lastCall.tool = "search_faq"
    /\ Len(lastCall.results) = 3
    /\ lastCall.results[1] # store[1]

C5_SearchDetailedFaq ==
    lastCall.tool = "search_detailed_faq" =>
        LET n == Len(lastCall.results)
            asked == IF "num_results" \in DOMAIN lastCall.args
                     THEN lastCall.args.num_results ELSE 5
        IN /\ lastCall.k <= asked
           /\ lastCall.query = lastCall.args.query
           /\ n <= asked
           /\ n >= 1 =>
                 /\ HasPrefix(lastCall.output,
                              <<"F", "o", "u", "n", "d", " ", Numerals[n]>>
                                \o <<" ", "d", "e", "t", "a", "i", "l", "e", "d", " ",
                                     "F", "A", "Q", " ", "e", "n", "t", "r", "i", "e",
                                     "s", ":">>)
                 /\ Occurrences(FaqEntryLabel, lastCall.output) = n
                 /\ \A i \in 1..n :
                       Occurrences(FaqEntryLabel \o <<Numerals[i], ":", "\n">>
                                     \o lastCall.results[i], lastCall.output) = 1

\* The caller asked for one result of an index that holds more.
C5_Witness ==
    /\ lastCall.tool = "search_detailed_faq"
    /\ "num_results" \in DOMAIN lastCall.args
    /\ lastCall.args.num_results = 1
    /\ Len(store) >= 2
    /\ Len(lastCall.results) = 1

\* C6: an invocation whose payload has a prompt calls the agent loop with one
\* message, a human one with that prompt as content, and returns a mapping with
\* the one key result, the content of the last message the agent loop returned.
C6_PromptForwarded ==
    \A w \in Workers :
        (Active(w) /\ "prompt" \in DOMAIN inv[w].payload) =>
            /\ Len(inv[w].agentInput) = 1
            /\ inv[w].agentInput[1].role = "human"
            /\ inv[w].agentInput[1].content = inv[w].payload.prompt
            /\ inv[w].pc = "done" =>
                  /\ DOMAIN inv[w].response = {"result"}
                  /\ inv[w].response.result =
                        inv[w].agentOutput[Len(inv[w].agentOutput)].content

\* An invocation with a prompt returned after the agent loop used a tool.
C6_Witness ==
    \E w \in Workers :
        /\ inv[w].pc = "done"
        /\ "prompt" \in DOMAIN inv[w].payload
        /\ Len(inv[w].agentOutput) > 2

\* C7: an invocation whose payload has no prompt does not fail at extracting
\* it: the agent loop gets "No prompt found in input" as the human message and
\* the invocation returns its result mapping like any other.
C7_DefaultPrompt ==
    \A w \in Workers :
        (Active(w) /\ "prompt" \notin DOMAIN inv[w].payload) =>
            /\ inv[w].agentCalls = 1
            /\ inv[w].agentInput =
                  << [role |-> "human", content |-> "No prompt found in input"] >>
            /\ inv[w].error # NoError => inv[w].error = inv[w].raised
            /\ inv[w].pc = "done" =>
                  /\ DOMAIN inv[w].response = {"result"}
                  /\ inv[w].response.result =
                        inv[w].agentOutput[Len(inv[w].agentOutput)].content

\* An invocation with the empty payload returned a result.
C7_Witness ==
    \E w \in Workers :
        /\ inv[w].pc = "done"
        /\ inv[w].payload = EmptyPayload

\* C8: if the agent loop raises, the invocation fails with that error and
\* returns no mapping; the agent loop is called once per invocation.
C8_AgentErrorPropagates ==
    \A w \in Workers :
        /\ Active(w) => inv[w].agentCalls = 1
        /\ inv[w].raised # NoError =>
              /\ inv[w].pc = "failed"
              /\ inv[w].error = inv[w].raised
              /\ inv[w].response = <<>>
        /\ inv[w].pc = "failed" => inv[w].raised # NoError

\* The agent loop raised in one invocation.
C8_Witness ==
    \E w \in Workers :
        /\ inv[w].pc = "failed"
        /\ inv[w].raised = "AgentInvocationError"

\* C9: once the index is built no step changes it, whatever invocations and
\* tool calls interleave: it stays what the build made it.
C9_IndexReadOnly ==
    [][ (pc \in {"model", "main", "serving"}) => (store' = store /\ store' = chunks') ]_vars

\* Two invocations are in their agent loops and a tool has queried the index.
C9_Witness ==
    /\ \E v, w \in Workers : v # w /\ inv[v].pc = "agent" /\ inv[w].pc = "agent"
    /\ lastCall.tool # "none"
    /\ lastCall.results # <<>>

\* C10: load, chunk and build run once each, in that order, and are complete
\* before an invocation is served; if a step fails, startup aborts and no
\* invocation is served.
C10_BuildBeforeServing ==
    /\ \E n \in 0..Len(BuildSteps) : steps = SubSeq(BuildSteps, 1, n)
    /\ ((\E w \in Workers : Active(w)) \/ lastCall.tool # "none") => pc = "serving"
    /\ pc = "serving" =>
          /\ steps = BuildSteps
          /\ startupError = NoError
          /\ Len(store) = Len(table)
          /\ \A i \in 1..Len(table) :
                HasPrefix(store[i], <<"Q", ":", " ">> \o Trimmed(table[i].Question))
    /\ pc = "aborted" =>
          /\ startupError # NoError
          /\ steps # BuildSteps
          /\ \A w \in Workers : ~Active(w)
          /\ lastCall.tool = "none"

\* An invocation has been served on an index built from the file's row.
C10_Witness ==
    /\ pc = "serving"
    /\ Len(store) = 1
    /\ \E w \in Workers : inv[w].pc = "done"

====
